---- MODULE Spec2Model ----
(***************************************************************************)
(* OpenStreetMap changeset dashboard: query construction, the memoizing    *)
(* executor (fetch_one / fetch_df), result bundles and the page script.    *)
(*                                                                         *)
(* Text is modelled as a sequence of tokens.  A token is a one-character   *)
(* string (digits, the quote, the sign, the comma, the wildcard) or an     *)
(* opaque fragment of literal text (a piece of SQL, a piece of a URL).     *)
(* An absent value (Python None) is the record None; a present optional    *)
(* value v is Some(v).                                                     *)
(***************************************************************************)
EXTENDS Integers, Sequences, FiniteSets, TLC

VARIABLES
    dataMaxYear,              \* year of the newest changeset in remote storage
    memo_fetch_one,           \* st.experimental_memo cache of fetch_one
    memo_fetch_df,            \* st.experimental_memo cache of fetch_df
    executed,                 \* query text -> number of db.execute(query) calls
    completed,                \* query text -> number of those that returned
    failures,                 \* number of db.execute calls that raised
    pc,                       \* position of the page script
    selectbox,                \* widget state of the year selectbox
    dataset_stats, max_year, stats, selected_year, previous_year, sample_data,
    stats_for_year, stats_for_previous_year, deltas, editor_result,
    locale_result, new_users_result,
    call,                     \* the last direct call of a function and its outcome
    ncalls                    \* number of direct calls made

engineVars == <<memo_fetch_one, memo_fetch_df, executed, completed, failures>>
pageVars == <<pc, selectbox, dataset_stats, max_year, stats, selected_year,
              previous_year, sample_data, stats_for_year, stats_for_previous_year,
              deltas, editor_result, locale_result, new_users_result>>
callVars == <<call, ncalls>>
vars == <<dataMaxYear, engineVars, pageVars, callVars>>

----------------------------------------------------------------------------
(* Bounds of the model *)

MaxDataYear == 2007       \* newest year the remote dataset may reach
MaxFailures == 1          \* db.execute calls that may raise in one behaviour
MaxCalls == 3             \* direct calls of builders / executor in SpecApi
MaxPathYear == 2008       \* largest year argument of paths_for_years in SpecFn

(* Program constants *)

MinYear == 2005           \* first partition of the dataset

----------------------------------------------------------------------------
(* Absent values and text *)

None == [absent |-> TRUE]
Some(v) == [absent |-> FALSE, value |-> v]

Digits == <<"0", "1", "2", "3", "4", "5", "6", "7", "8", "9">>

Abs(n) == IF n < 0 THEN -n ELSE n

\* str(n) of a non-negative integer: its decimal digits
RECURSIVE DecStr(_)
DecStr(n) ==
    IF n < 10 THEN <<Digits[n + 1]>>
    ELSE DecStr(n \div 10) \o <<Digits[(n % 10) + 1]>>

\* str(n) of any integer
IntStr(n) == IF n < 0 THEN <<"-">> \o DecStr(-n) ELSE DecStr(n)

\* the ',' option of the format mini-language: groups of three from the right
RECURSIVE Grouped(_)
Grouped(ds) ==
    IF Len(ds) <= 3 THEN ds
    ELSE Grouped(SubSeq(ds, 1, Len(ds) - 3)) \o <<",">>
         \o SubSeq(ds, Len(ds) - 2, Len(ds))

\* format(n, "+,d")
FormatPlusCommaD(n) ==
    (IF n < 0 THEN <<"-">> ELSE <<"+">>) \o Grouped(DecStr(Abs(n)))

\* format(n, ",d"): the sign only when negative
FormatCommaD(n) ==
    (IF n < 0 THEN <<"-">> ELSE <<>>) \o Grouped(DecStr(Abs(n)))

\* str.format on a template: every {year} field replaced by the given text
RECURSIVE substitute(_, _)
substitute(url_template, text) ==
    IF url_template = <<>> THEN <<>>
    ELSE (IF Head(url_template) = "{year}" THEN text
          ELSE <<Head(url_template)>>)
         \o substitute(Tail(url_template), text)

\* url_template.format(year=year) for an integer year
format(url_template, year) == substitute(url_template, IntStr(year))

\* url_template.format(year='*')
format_wildcard(url_template) == substitute(url_template, <<"*">>)

\* range(a, b) as a sequence
range(a, b) == [i \in 1..(IF b > a THEN b - a ELSE 0) |-> a + i - 1]

\* sep.join(parts)
RECURSIVE join(_, _)
join(sep, parts) ==
    IF parts = <<>> THEN <<>>
    ELSE IF Len(parts) = 1 THEN parts[1]
    ELSE parts[1] \o <<sep>> \o join(sep, Tail(parts))

----------------------------------------------------------------------------
(* utils.py *)

get_delta_unsigned(current_value, previous_value) ==
    IF previous_value = None THEN None
    ELSE Some(FormatCommaD(current_value - previous_value.value))

get_delta(current_value, previous_value) ==
    IF previous_value = None THEN None
    ELSE Some(FormatPlusCommaD(current_value - previous_value.value))

stringify(path) == <<"'">> \o path \o <<"'">>

paths_for_years_exclusive(start_year, end_year, url_template) ==
    [i \in DOMAIN range(start_year, end_year) |->
        stringify(format(url_template, range(start_year, end_year)[i]))]

paths_for_years(start_year, end_year, url_template) ==
    [i \in DOMAIN range(start_year, end_year + 1) |->
        stringify(format(url_template, range(start_year, end_year + 1)[i]))]

----------------------------------------------------------------------------
(* Query text (main.py).  The SQL around the substituted locations is kept *)
(* as opaque fragments; the quote that delimits a location literal is a    *)
(* token of its own.                                                       *)

data_url_template == <<"s3://tt-osm-changesets/full_by_year/", "{year}", ".zstd.parquet">>

SQL_MinMax == "SELECT min(created_at) start_range, max(created_at) end_range FROM "
SQL_YearStats == "SELECT count(*) number_of_changesets, count(distinct uid) number_of_unique_users, sum(num_changes) number_of_object_changes, sum(comments_count) number_of_comments FROM "
SQL_Editors == "SELECT CASE WHEN created_by LIKE ... ELSE coalesce(created_by, '<unknown>') END editor, sum(num_changes)::bigint number_of_object_changes, count(*) number_of_changesets FROM "
SQL_EditorsTail == " GROUP BY 1 ORDER BY 2 DESC LIMIT 25"
SQL_Sample == "SELECT * FROM "
SQL_SampleTail == " LIMIT 10"
SQL_Locale == "SELECT coalesce(locale, '<unknown>') reported_locale, count(*) number_of_changesets, round(100.0 * count(*) / (SELECT count(*) FROM "
SQL_LocaleMid == "), 2) || '%' as percentage_of_all_changesets FROM "
SQL_LocaleTail == " GROUP BY 1 ORDER BY 2 DESC LIMIT 15"
SQL_NewUsers == "WITH users_who_previously_edited as (SELECT DISTINCT uid FROM parquet_scan(["
SQL_NewUsersMid == "])), users_who_edited_current_year as (SELECT DISTINCT uid FROM parquet_scan("
SQL_NewUsersTail == ")) SELECT CASE WHEN pe.uid IS NULL THEN true ELSE false END users_who_did_not_edit_before, count(*) number_of_users FROM users_who_edited_current_year cu LEFT JOIN users_who_previously_edited pe USING(uid) GROUP BY 1"
SQL_Trend == "SELECT regexp_extract(filename, '([0-9]{4})', 1) as year, sum(num_changes)::bigint as number_of_changes, count(*) as number_of_changesets, count(distinct uid) as number_of_unique_users FROM parquet_scan(["
SQL_TrendTail == "], FILENAME = 1) GROUP BY 1 ORDER BY 1"
SEP == ", "

min_max_timestamps_query(url_template) ==
    <<SQL_MinMax, "'">> \o format_wildcard(url_template) \o <<"'">>

year_stats_query(year, url_template) ==
    <<SQL_YearStats, "'">> \o format(url_template, year) \o <<"'">>

most_popular_editors_query(year, url_template) ==
    <<SQL_Editors, "'">> \o format(url_template, year) \o <<"'", SQL_EditorsTail>>

get_sample_data_query(year, url_template) ==
    <<SQL_Sample, "'">> \o format(url_template, year) \o <<"'", SQL_SampleTail>>

most_reported_locale_query(year, url_template) ==
    <<SQL_Locale, "'">> \o format(url_template, year)
    \o <<"'", SQL_LocaleMid, "'">> \o format(url_template, year)
    \o <<"'", SQL_LocaleTail>>

new_users_query(year, url_template) ==
    <<SQL_NewUsers>>
    \o join(SEP, paths_for_years(MinYear, year - 1, url_template))
    \o <<SQL_NewUsersMid, "'">> \o format(url_template, year)
    \o <<"'", SQL_NewUsersTail>>

stats_over_years_query(url_template, maxYear) ==
    <<SQL_Trend>>
    \o join(SEP, paths_for_years(MinYear, maxYear, url_template))
    \o <<SQL_TrendTail>>

----------------------------------------------------------------------------
(* The embedded engine and the remote dataset behind db.execute.  The      *)
(* dataset holds one partition per year MinYear..dataMaxYear, none empty.  *)

Users(y) == (y - MinYear + 1)..(y - MinYear + 3)      \* uids active in year y
Changesets(y) == 1200 * (y - MinYear + 1)
ObjectChanges(y) == 50000 - 900 * (y - MinYear)
Comments(y) == (y - MinYear) * (y - MinYear)

Timestamp(y, m, d) == [year |-> y, month |-> m, day |-> d]

\* the quoted literals of a text, in order, without their quotes
Literals(text) ==
    LET quotes == {i \in DOMAIN text : text[i] = "'"}
        nth(k) == CHOOSE i \in quotes : Cardinality({j \in quotes : j < i}) = k - 1
    IN [k \in 1..(Cardinality(quotes) \div 2) |->
          SubSeq(text, nth(2 * k - 1) + 1, nth(2 * k) - 1)]

\* the partitions of the remote dataset a location addresses
Partitions(loc) ==
    IF loc = format_wildcard(data_url_template) THEN MinYear..dataMaxYear
    ELSE {y \in MinYear..dataMaxYear : loc = format(data_url_template, y)}

\* the engine can bind the query: it scans at least one location and every
\* location it names exists
EngineAccepts(query) ==
    LET lits == Literals(query)
    IN /\ lits # <<>>
       /\ \A i \in DOMAIN lits : Partitions(lits[i]) # {}
       /\ query[1] = SQL_NewUsers => Len(lits) >= 2

SetMax(S) == CHOOSE x \in S : \A y \in S : y <= x
SetMin(S) == CHOOSE x \in S : \A y \in S : x <= y

\* sorted sequence of a finite set of integers
RECURSIVE Ascending(_)
Ascending(S) ==
    IF S = {} THEN <<>> ELSE <<SetMin(S)>> \o Ascending(S \ {SetMin(S)})

\* fetchone() of an accepted scalar query
EngineScalars(query) ==
    LET ys == Partitions(Literals(query)[1])
        y == SetMin(ys)
    IN IF query[1] = SQL_MinMax
       THEN <<Timestamp(SetMin(ys), 4, 9), Timestamp(SetMax(ys), 1, 30)>>
       ELSE <<Changesets(y), Cardinality(Users(y)), ObjectChanges(y), Comments(y)>>

Columns(query) ==
    CASE query[1] = SQL_Editors -> <<"editor", "number_of_object_changes", "number_of_changesets">>
      [] query[1] = SQL_Locale -> <<"reported_locale", "number_of_changesets", "percentage_of_all_changesets">>
      [] query[1] = SQL_NewUsers -> <<"users_who_did_not_edit_before", "number_of_users">>
      [] query[1] = SQL_Trend -> <<"year", "number_of_changes", "number_of_changesets", "number_of_unique_users">>
      [] OTHER -> <<"uid", "created_at", "created_by", "locale", "num_changes", "comments_count">>

\* rows of the new-vs-old users query: the users of the current year LEFT
\* JOINed on the users of the scanned previous years, grouped by the flag
NewUsersRows(query) ==
    LET lits == Literals(query)
        cu == UNION {Users(y) : y \in Partitions(lits[Len(lits)])}
        pe == UNION {UNION {Users(y) : y \in Partitions(lits[i])} : i \in 1..(Len(lits) - 1)}
        fresh == [users_who_did_not_edit_before |-> TRUE, number_of_users |-> Cardinality(cu \ pe)]
        old == [users_who_did_not_edit_before |-> FALSE, number_of_users |-> Cardinality(cu \cap pe)]
    IN (IF cu \ pe = {} THEN <<>> ELSE <<fresh>>) \o (IF cu \cap pe = {} THEN <<>> ELSE <<old>>)

TrendRows(query) ==
    LET lits == Literals(query)
        ys == Ascending(UNION {Partitions(lits[i]) : i \in DOMAIN lits})
    IN [i \in DOMAIN ys |->
          [year |-> DecStr(ys[i]), number_of_changes |-> ObjectChanges(ys[i]),
           number_of_changesets |-> Changesets(ys[i]),
           number_of_unique_users |-> Cardinality(Users(ys[i]))]]

\* result.arrow().to_pandas() of an accepted table query
EngineTable(query) ==
    [columns |-> Columns(query),
     rows |-> CASE query[1] = SQL_NewUsers -> NewUsersRows(query)
                [] query[1] = SQL_Trend -> TrendRows(query)
                [] OTHER -> <<[view |-> query[1], partition |-> SetMin(Partitions(Literals(query)[1]))]>>]

----------------------------------------------------------------------------
(* The editor label of most_popular_editors: the CASE expression the       *)
(* engine evaluates for every row.  created_by is None for SQL NULL.       *)

EditorCases ==
    <<[like |-> <<"i", "D", "%">>,
       label |-> <<"i", "D">>],
      [like |-> <<"J", "O", "S", "M", "%">>,
       label |-> <<"J", "O", "S", "M">>],
      [like |-> <<"L", "e", "v", "e", "l", "0", "%">>,
       label |-> <<"L", "e", "v", "e", "l", "0">>],
      [like |-> <<"S", "t", "r", "e", "e", "t", "C", "o", "m", "p", "l", "e", "t", "e", "%">>,
       label |-> <<"S", "t", "r", "e", "e", "t", "C", "o", "m", "p", "l", "e", "t", "e">>],
      [like |-> <<"R", "a", "p", "i", "D", "%">>,
       label |-> <<"R", "a", "p", "i", "D">>],
      [like |-> <<"R", "a", "p", "i", "d", "%">>,
       label |-> <<"R", "a", "p", "i", "D">>],
      [like |-> <<"P", "o", "t", "l", "a", "c", "h", "%">>,
       label |-> <<"P", "o", "t", "l", "a", "c", "h">>],
      [like |-> <<"P", "o", "t", "l", "a", "t", "c", "h", "%">>,
       label |-> <<"P", "o", "t", "l", "a", "t", "c", "h">>],
      [like |-> <<"G", "o", " ", "M", "a", "p", "!", "!", "%">>,
       label |-> <<"G", "o", " ", "M", "a", "p", "!", "!">>],
      [like |-> <<"M", "e", "r", "k", "a", "a", "r", "t", "o", "r", "%">>,
       label |-> <<"M", "e", "r", "k", "a", "a", "r", "t", "o", "r">>],
      [like |-> <<"O", "s", "m", "A", "n", "d", "%">>,
       label |-> <<"O", "s", "m", "A", "n", "d">>],
      [like |-> <<"M", "A", "P", "S", ".", "M", "E", "%">>,
       label |-> <<"M", "A", "P", "S", ".", "M", "E">>],
      [like |-> <<"V", "e", "s", "p", "u", "c", "c", "i", "%">>,
       label |-> <<"V", "e", "s", "p", "u", "c", "c", "i">>],
      [like |-> <<"O", "r", "g", "a", "n", "i", "c", " ", "M", "a", "p", "s", "%">>,
       label |-> <<"O", "r", "g", "a", "n", "i", "c", " ", "M", "a", "p", "s">>],
      [like |-> <<"A", "r", "c", "G", "I", "S", " ", "E", "d", "i", "t", "o", "r", "%">>,
       label |-> <<"A", "r", "c", "G", "I", "S", " ", "E", "d", "i", "t", "o", "r">>],
      [like |-> <<"b", "u", "l", "k", "_", "u", "p", "l", "o", "a", "d", ".", "p", "y", "%">>,
       label |-> <<"b", "u", "l", "k", "_", "u", "p", "l", "o", "a", "d", ".", "p", "y">>],
      [like |-> <<"r", "e", "v", "e", "r", "t", "e", "r", "%">>,
       label |-> <<"r", "e", "v", "e", "r", "t", "e", "r">>],
      [like |-> <<"o", "s", "m", "-", "r", "e", "v", "e", "r", "t", "%">>,
       label |-> <<"o", "s", "m", "-", "r", "e", "v", "e", "r", "t">>],
      [like |-> <<"E", "v", "e", "r", "y", "_", "D", "o", "o", "r", "%">>,
       label |-> <<"E", "v", "e", "r", "y", "D", "o", "o", "r">>],
      [like |-> <<"o", "s", "m", "t", "o", "o", "l", "s", "%">>,
       label |-> <<"o", "s", "m", "t", "o", "o", "l", "s">>],
      [like |-> <<"o", "s", "m", "a", "p", "i", "%">>,
       label |-> <<"o", "s", "m", "a", "p", "i">>],
      [like |-> <<"r", "o", "s", "e", "m", "a", "r", "y", "%">>,
       label |-> <<"r", "o", "s", "e", "m", "a", "r", "y">>],
      [like |-> <<"G", "l", "o", "b", "e", "%">>,
       label |-> <<"G", "l", "o", "b", "e">>],
      [like |-> <<"P", "y", "t", "h", "o", "n", "O", "s", "m", "A", "p", "i", "%">>,
       label |-> <<"P", "y", "t", "h", "o", "n", "O", "s", "m", "A", "p", "i">>],
      [like |-> <<"b", "o", "t", "-", "s", "o", "u", "r", "c", "e", "-", "c", "a", "d", "a", "s", "t", "r", "e", ".", "p", "y", "%">>,
       label |-> <<"b", "o", "t", "-", "s", "o", "u", "r", "c", "e", "-", "c", "a", "d", "a", "s", "t", "r", "e", ".", "p", "y">>],
      [like |-> <<"u", "p", "l", "o", "a", "d", ".", "p", "y", "%">>,
       label |-> <<"u", "p", "l", "o", "a", "d", ".", "p", "y">>],
      [like |-> <<"o", "s", "m", "-", "b", "u", "d", "y", "n", "k", "i", "-", "o", "r", "t", "o", "-", "i", "m", "p", "o", "r", "t", "%">>,
       label |-> <<"o", "s", "m", "-", "b", "u", "d", "y", "n", "k", "i", "-", "o", "r", "t", "o", "-", "i", "m", "p", "o", "r", "t">>]>>

Unknown == <<"<", "u", "n", "k", "n", "o", "w", "n", ">">>

\* value LIKE pattern: % matches any run of characters, _ any one character
RECURSIVE Like(_, _)
Like(value, pattern) ==
    IF pattern = <<>> THEN value = <<>>
    ELSE IF Head(pattern) = "%"
    THEN \E k \in 0..Len(value) : Like(SubSeq(value, k + 1, Len(value)), Tail(pattern))
    ELSE /\ value # <<>>
         /\ Head(pattern) = "_" \/ Head(pattern) = Head(value)
         /\ Like(Tail(value), Tail(pattern))

\* coalesce(created_by, '<unknown>')
coalesce_created_by_blank(created_by) == IF created_by = None THEN <<>> ELSE created_by.value

coalesce_created_by(created_by) == IF created_by = None THEN Unknown ELSE created_by.value

\* CASE WHEN ... THEN ... ELSE ... END: the WHEN clauses are tried in order;
\* a comparison with NULL is not true
RECURSIVE case_when(_, _)
case_when(created_by, cases) ==
    IF cases = <<>> THEN coalesce_created_by(created_by)
    ELSE IF created_by # None /\ Like(created_by.value, Head(cases).like)
    THEN Head(cases).label
    ELSE case_when(created_by, Tail(cases))

editor_label(created_by) == case_when(created_by, EditorCases)

----------------------------------------------------------------------------
(* datastructures.py *)

DatasetStats(query, min_opened_date, max_opened_date) ==
    [query |-> query, min_opened_date |-> min_opened_date,
     max_opened_date |-> max_opened_date]

StatsForYear(query, number_of_changesets, number_of_unique_users, number_of_object_changes, number_of_comments) ==
    [query |-> query, number_of_changesets |-> number_of_changesets,
     number_of_unique_users |-> number_of_unique_users,
     number_of_object_changes |-> number_of_object_changes,
     number_of_comments |-> number_of_comments]

DataFrameResult(query, df) == [query |-> query, df |-> df]

----------------------------------------------------------------------------
(* The memoizing executor (main.py, fetch_one / fetch_df).  `up` is the    *)
(* environment's answer for this execution: FALSE is a network failure or  *)
(* an unreadable remote file.  The outcome names the value returned (None  *)
(* when the call raised), the cache afterwards and the number of           *)
(* db.execute calls made.                                                  *)

Outcome(query, ret, memo, runs, raised) ==
    [query |-> query, ret |-> ret, memo |-> memo, runs |-> runs, raised |-> raised]

\* fetch_one without the memo decorator's store
fetch_one_unstored(memo, query, up) ==
    IF query \in DOMAIN memo THEN Outcome(query, Some(memo[query]), memo, 0, FALSE)
    ELSE IF up /\ EngineAccepts(query)
    THEN Outcome(query, Some(EngineScalars(query)), memo, 1, FALSE)
    ELSE Outcome(query, None, memo, 1, TRUE)

\* fetch_one with a cache keyed by the statement instead of the whole text
fetch_one_keyed_by_statement(memo, query, up) ==
    IF \E k \in DOMAIN memo : k[1] = query[1]
    THEN Outcome(query, Some(memo[CHOOSE k \in DOMAIN memo : k[1] = query[1]]), memo, 0, FALSE)
    ELSE IF up /\ EngineAccepts(query)
    THEN Outcome(query, Some(EngineScalars(query)),
                 memo @@ (query :> EngineScalars(query)), 1, FALSE)
    ELSE Outcome(query, None, memo, 1, TRUE)

fetch_one(memo, query, up) ==
    IF query \in DOMAIN memo THEN Outcome(query, Some(memo[query]), memo, 0, FALSE)
    ELSE IF up /\ EngineAccepts(query)
    THEN Outcome(query, Some(EngineScalars(query)),
                 memo @@ (query :> EngineScalars(query)), 1, FALSE)
    ELSE Outcome(query, None, memo, 1, TRUE)

\* fetch_df that tries a failed execution a second time
fetch_df_retrying(memo, query, up) ==
    IF query \in DOMAIN memo THEN Outcome(query, Some(memo[query]), memo, 0, FALSE)
    ELSE IF up /\ EngineAccepts(query)
    THEN Outcome(query, Some(DataFrameResult(query, EngineTable(query))),
                 memo @@ (query :> DataFrameResult(query, EngineTable(query))),
                 1, FALSE)
    ELSE Outcome(query, None, memo, 2, TRUE)

fetch_df(memo, query, up) ==
    IF query \in DOMAIN memo THEN Outcome(query, Some(memo[query]), memo, 0, FALSE)
    ELSE IF up /\ EngineAccepts(query)
    THEN Outcome(query, Some(DataFrameResult(query, EngineTable(query))),
                 memo @@ (query :> DataFrameResult(query, EngineTable(query))),
                 1, FALSE)
    ELSE Outcome(query, None, memo, 1, TRUE)

----------------------------------------------------------------------------
(* The query functions of main.py: build the text, fetch, wrap the result  *)

Wrapped(r, bundle) == [r EXCEPT !.ret = IF r.raised THEN None ELSE Some(bundle)]

min_max_timestamps(memo, url_template, up) ==
    LET r == fetch_one(memo, min_max_timestamps_query(url_template), up)
    IN Wrapped(r, DatasetStats(r.query, r.ret.value[1], r.ret.value[2]))

year_stats(memo, year, url_template, up) ==
    LET r == fetch_one(memo, year_stats_query(year, url_template), up)
    IN Wrapped(r, StatsForYear(Some(r.query), Some(r.ret.value[1]), Some(r.ret.value[2]),
                               Some(r.ret.value[3]), Some(r.ret.value[4])))

most_popular_editors(memo, year, url_template, up) ==
    fetch_df(memo, most_popular_editors_query(year, url_template), up)

get_sample_data(memo, year, url_template, up) ==
    fetch_df(memo, get_sample_data_query(year, url_template), up)

most_reported_locale(memo, year, url_template, up) ==
    fetch_df(memo, most_reported_locale_query(year, url_template), up)

new_users(memo, year, url_template, up) ==
    fetch_df(memo, new_users_query(year, url_template), up)

stats_over_years(memo, url_template, maxYear, up) ==
    fetch_df(memo, stats_over_years_query(url_template, maxYear), up)

----------------------------------------------------------------------------
(* Bookkeeping of db.execute calls *)

NoCounts == [q \in {} |-> 0]

Count(f, q, n) ==
    IF n = 0 THEN f
    ELSE IF q \in DOMAIN f THEN [f EXCEPT ![q] = @ + n]
    ELSE f @@ (q :> n)

Runs(f, q) == IF q \in DOMAIN f THEN f[q] ELSE 0

\* the environment may fail an execution only MaxFailures times
MayFail(up) == up \/ failures < MaxFailures

Account(r) ==
    /\ executed' = Count(executed, r.query, r.runs)
    /\ completed' = Count(completed, r.query, IF r.raised THEN 0 ELSE r.runs)
    /\ failures' = IF r.raised /\ EngineAccepts(r.query) THEN failures + 1 ELSE failures

AccountOne(r) == Account(r) /\ memo_fetch_one' = r.memo /\ UNCHANGED memo_fetch_df
AccountDf(r) == Account(r) /\ memo_fetch_df' = r.memo /\ UNCHANGED memo_fetch_one

----------------------------------------------------------------------------
(* The page script (main.py from line 204), one action per block.  A       *)
(* raised error ends the run; the page is run again from the top on every  *)
(* interaction.                                                            *)

TitleCase(name) ==
    CASE name = "editor" -> "Editor"
      [] name = "number_of_object_changes" -> "Number Of Object Changes"
      [] name = "number_of_changesets" -> "Number Of Changesets"
      [] name = "reported_locale" -> "Reported Locale"
      [] name = "percentage_of_all_changesets" -> "Percentage Of All Changesets"
      [] name = "users_who_did_not_edit_before" -> "Users Who Did Not Edit Before"
      [] name = "number_of_users" -> "Number Of Users"
      [] name = "year" -> "Year"
      [] name = "number_of_changes" -> "Number Of Changes"
      [] name = "number_of_unique_users" -> "Number Of Unique Users"
      [] OTHER -> name

\* result.df.columns = result.df.columns.map(lambda x: str(x).replace("_", " ").title())
Retitled(ret) ==
    IF ret = None THEN None
    ELSE Some([ret.value EXCEPT !.df.columns = [i \in DOMAIN @ |-> TitleCase(@[i])]])

year_options_one_more(maxYear) == range(MinYear, maxYear + 2)

year_options(maxYear) == range(MinYear, maxYear + 1)

default_selection(options) == options[Len(options)]

previous_year_of_late(year) == IF year > MinYear + 1 THEN Some(year - 1) ELSE None

previous_year_of(year) == IF year > MinYear THEN Some(year - 1) ELSE None

shows_new_users_always(year) == year >= MinYear

shows_new_users(year) == year > MinYear

Next_pc(r, next) == IF r.raised THEN "error" ELSE next

RunDatasetStats ==
    /\ pc = "start"
    /\ \E up \in BOOLEAN :
        /\ MayFail(up)
        /\ LET r == min_max_timestamps(memo_fetch_one, data_url_template, up)
           IN /\ AccountOne(r)
              /\ dataset_stats' = r.ret
              /\ pc' = Next_pc(r, "charts")
    /\ UNCHANGED <<dataMaxYear, selectbox, max_year, stats, selected_year, previous_year,
                   sample_data, stats_for_year, stats_for_previous_year, deltas,
                   editor_result, locale_result, new_users_result, callVars>>

RunCharts ==
    /\ pc = "charts"
    /\ \E up \in BOOLEAN :
        /\ MayFail(up)
        /\ LET my == dataset_stats.value.max_opened_date.year
               r == stats_over_years(memo_fetch_df, data_url_template, my, up)
           IN /\ AccountDf(r)
              /\ max_year' = Some(my)
              /\ stats' = Retitled(r.ret)
              /\ pc' = Next_pc(r, "select")
    /\ UNCHANGED <<dataMaxYear, selectbox, dataset_stats, selected_year, previous_year,
                   sample_data, stats_for_year, stats_for_previous_year, deltas,
                   editor_result, locale_result, new_users_result, callVars>>

RunSelect ==
    /\ pc = "select"
    /\ LET year == IF selectbox = None
                   THEN default_selection(year_options(max_year.value))
                   ELSE selectbox.value
       IN /\ selected_year' = Some(year)
          /\ previous_year' = previous_year_of(year)
    /\ pc' = "sample"
    /\ UNCHANGED <<dataMaxYear, engineVars, selectbox, dataset_stats, max_year, stats,
                   sample_data, stats_for_year, stats_for_previous_year, deltas,
                   editor_result, locale_result, new_users_result, callVars>>

RunSample ==
    /\ pc = "sample"
    /\ \E up \in BOOLEAN :
        /\ MayFail(up)
        /\ LET r == get_sample_data(memo_fetch_df, selected_year.value, data_url_template, up)
           IN /\ AccountDf(r)
              /\ sample_data' = r.ret
              /\ pc' = Next_pc(r, "year_stats")
    /\ UNCHANGED <<dataMaxYear, selectbox, dataset_stats, max_year, stats, selected_year,
                   previous_year, stats_for_year, stats_for_previous_year, deltas,
                   editor_result, locale_result, new_users_result, callVars>>

RunYearStats ==
    /\ pc = "year_stats"
    /\ \E up \in BOOLEAN :
        /\ MayFail(up)
        /\ LET r == year_stats(memo_fetch_one, selected_year.value, data_url_template, up)
           IN /\ AccountOne(r)
              /\ stats_for_year' = r.ret
              /\ pc' = Next_pc(r, "previous_year_stats")
    /\ UNCHANGED <<dataMaxYear, selectbox, dataset_stats, max_year, stats, selected_year,
                   previous_year, sample_data, stats_for_previous_year, deltas,
                   editor_result, locale_result, new_users_result, callVars>>

RunPreviousYearStats ==
    /\ pc = "previous_year_stats"
    /\ previous_year # None
    /\ \E up \in BOOLEAN :
        /\ MayFail(up)
        /\ LET r == year_stats(memo_fetch_one, previous_year.value, data_url_template, up)
           IN /\ AccountOne(r)
              /\ stats_for_previous_year' = r.ret
              /\ pc' = Next_pc(r, "metrics")
    /\ UNCHANGED <<dataMaxYear, selectbox, dataset_stats, max_year, stats, selected_year,
                   previous_year, sample_data, stats_for_year, deltas,
                   editor_result, locale_result, new_users_result, callVars>>

NoPreviousYearStats ==
    /\ pc = "previous_year_stats"
    /\ previous_year = None
    /\ stats_for_previous_year' = Some(StatsForYear(None, None, None, None, None))
    /\ pc' = "metrics"
    /\ UNCHANGED <<dataMaxYear, engineVars, selectbox, dataset_stats, max_year, stats,
                   selected_year, previous_year, sample_data, stats_for_year, deltas,
                   editor_result, locale_result, new_users_result, callVars>>

metric(current, previous) ==
    [value |-> FormatCommaD(current.value), delta |-> get_delta(current.value, previous)]

RunMetrics ==
    /\ pc = "metrics"
    /\ LET cur == stats_for_year.value
           prev == stats_for_previous_year.value
       IN deltas' = Some(<<metric(cur.number_of_changesets, prev.number_of_changesets),
                           metric(cur.number_of_unique_users, prev.number_of_unique_users),
                           metric(cur.number_of_object_changes, prev.number_of_object_changes),
                           metric(cur.number_of_comments, prev.number_of_comments)>>)
    /\ pc' = "editors"
    /\ UNCHANGED <<dataMaxYear, engineVars, selectbox, dataset_stats, max_year, stats,
                   selected_year, previous_year, sample_data, stats_for_year,
                   stats_for_previous_year, editor_result, locale_result,
                   new_users_result, callVars>>

RunEditors ==
    /\ pc = "editors"
    /\ \E up \in BOOLEAN :
        /\ MayFail(up)
        /\ LET r == most_popular_editors(memo_fetch_df, selected_year.value, data_url_template, up)
           IN /\ AccountDf(r)
              /\ editor_result' = Retitled(r.ret)
              /\ pc' = Next_pc(r, "locale")
    /\ UNCHANGED <<dataMaxYear, selectbox, dataset_stats, max_year, stats, selected_year,
                   previous_year, sample_data, stats_for_year, stats_for_previous_year,
                   deltas, locale_result, new_users_result, callVars>>

RunLocale ==
    /\ pc = "locale"
    /\ \E up \in BOOLEAN :
        /\ MayFail(up)
        /\ LET r == most_reported_locale(memo_fetch_df, selected_year.value, data_url_template, up)
           IN /\ AccountDf(r)
              /\ locale_result' = Retitled(r.ret)
              /\ pc' = Next_pc(r, "new_users")
    /\ UNCHANGED <<dataMaxYear, selectbox, dataset_stats, max_year, stats, selected_year,
                   previous_year, sample_data, stats_for_year, stats_for_previous_year,
                   deltas, editor_result, new_users_result, callVars>>

RunNewUsers ==
    /\ pc = "new_users"
    /\ shows_new_users(selected_year.value)
    /\ \E up \in BOOLEAN :
        /\ MayFail(up)
        /\ LET r == new_users(memo_fetch_df, selected_year.value, data_url_template, up)
           IN /\ AccountDf(r)
              /\ new_users_result' = Retitled(r.ret)
              /\ pc' = Next_pc(r, "done")
    /\ UNCHANGED <<dataMaxYear, selectbox, dataset_stats, max_year, stats, selected_year,
                   previous_year, sample_data, stats_for_year, stats_for_previous_year,
                   deltas, editor_result, locale_result, callVars>>

NoNewUsers ==
    /\ pc = "new_users"
    /\ ~shows_new_users(selected_year.value)
    /\ pc' = "done"
    /\ UNCHANGED <<dataMaxYear, engineVars, selectbox, dataset_stats, max_year, stats,
                   selected_year, previous_year, sample_data, stats_for_year,
                   stats_for_previous_year, deltas, editor_result, locale_result,
                   new_users_result, callVars>>

ResetLocals ==
    /\ dataset_stats' = None /\ max_year' = None /\ stats' = None
    /\ selected_year' = None /\ previous_year' = None /\ sample_data' = None
    /\ stats_for_year' = None /\ stats_for_previous_year' = None /\ deltas' = None
    /\ editor_result' = None /\ locale_result' = None /\ new_users_result' = None

\* the user picks a year in the selectbox: the script runs again
SelectYear ==
    /\ pc \in {"done", "error"}
    /\ selected_year # None
    /\ \E i \in DOMAIN year_options(max_year.value) :
          selectbox' = Some(year_options(max_year.value)[i])
    /\ pc' = "start"
    /\ ResetLocals
    /\ UNCHANGED <<dataMaxYear, engineVars, callVars>>

\* the page is opened again in a new session: widgets start from their defaults
Reload ==
    /\ pc \in {"done", "error"}
    /\ selectbox' = None
    /\ pc' = "start"
    /\ ResetLocals
    /\ UNCHANGED <<dataMaxYear, engineVars, callVars>>

Init ==
    /\ dataMaxYear \in MinYear..MaxDataYear
    /\ memo_fetch_one = NoCounts /\ memo_fetch_df = NoCounts
    /\ executed = NoCounts /\ completed = NoCounts /\ failures = 0
    /\ pc = "start" /\ selectbox = None
    /\ dataset_stats = None /\ max_year = None /\ stats = None
    /\ selected_year = None /\ previous_year = None /\ sample_data = None
    /\ stats_for_year = None /\ stats_for_previous_year = None /\ deltas = None
    /\ editor_result = None /\ locale_result = None /\ new_users_result = None
    /\ call = None /\ ncalls = 0

Next ==
    \/ RunDatasetStats \/ RunCharts \/ RunSelect \/ RunSample \/ RunYearStats
    \/ RunPreviousYearStats \/ NoPreviousYearStats \/ RunMetrics \/ RunEditors
    \/ RunLocale \/ RunNewUsers \/ NoNewUsers \/ SelectYear \/ Reload

Spec == Init /\ [][Next]_vars

----------------------------------------------------------------------------
(* Direct calls of the pure functions, with arguments from bounded sets    *)

DeltaValues == {0, 80, 100, 999, 1000, 56, 1290, 1234567}

Templates ==
    {data_url_template,
     <<"/data/", "{year}", "/changesets-", "{year}", ".parquet">>}

PathYears == (MinYear - 2)..MaxPathYear

CreatedByValues ==
    {None,
     Some(<<"i", "D", "e", "d", "i", "t", "o", "r", "-", "e", "x", "t", "r", "a">>),
     Some(<<"i", "D", " ", "2", ".", "2", "0", ".", "2">>),
     Some(<<"J", "O", "S", "M", "/", "1", ".", "5", " ", "(", "1", "8", "5", "8", "3", " ", "e", "n", ")">>),
     Some(<<"R", "a", "p", "i", "d", " ", "2", ".", "0">>),
     Some(<<"R", "a", "p", "i", "D", " ", "1", ".", "1">>),
     Some(<<"P", "o", "t", "l", "a", "t", "c", "h", " ", "2">>),
     Some(<<"P", "o", "t", "l", "a", "c", "h">>),
     Some(<<"E", "v", "e", "r", "y", " ", "D", "o", "o", "r", " ", "A", "n", "d", "r", "o", "i", "d", " ", "2", ".", "0">>),
     Some(<<"E", "v", "e", "r", "y", "_", "D", "o", "o", "r">>),
     Some(<<"E", "v", "e", "r", "y", "D", "o", "o", "r">>),
     Some(<<"b", "u", "l", "k", " ", "u", "p", "l", "o", "a", "d", ".", "p", "y", "/", "1", ".", "0">>),
     Some(<<"b", "u", "l", "k", "_", "u", "p", "l", "o", "a", "d", ".", "p", "y", "/", "1", "7">>),
     Some(<<"u", "p", "l", "o", "a", "d", ".", "p", "y", " ", "v", ".", " ", "1">>),
     Some(<<"o", "s", "m", "a", "p", "i", "/", "0", ".", "3">>),
     Some(<<"o", "s", "m", "t", "o", "o", "l", "s", "/", "0", ".", "1">>),
     Some(<<"r", "o", "s", "e", "m", "a", "r", "y", " ", "v", "0", ".", "1">>),
     Some(<<"G", "o", " ", "M", "a", "p", "!", "!", " ", "2", ".", "1">>),
     Some(<<"M", "A", "P", "S", ".", "M", "E", " ", "i", "o", "s", " ", "8">>),
     Some(<<"i", "d">>),
     Some(<<"j", "o", "s", "m">>),
     Some(<<>>),
     Some(<<"M", "e", "r", "k", "a", "a", "r", "t", "o", "r", " ", "0", ".", "1", "2">>),
     Some(<<"o", "s", "m", "-", "r", "e", "v", "e", "r", "t", " ", "1">>),
     Some(<<"r", "e", "v", "e", "r", "t", "e", "r", ";", "J", "O", "S", "M">>),
     Some(<<"V", "e", "s", "p", "u", "c", "c", "i", " ", "1", "8">>),
     Some(<<"O", "s", "m", "A", "n", "d", "+", " ", "4">>),
     Some(<<"S", "t", "r", "e", "e", "t", "C", "o", "m", "p", "l", "e", "t", "e", " ", "5", "0">>),
     Some(<<"L", "e", "v", "e", "l", "0", " ", "v", "1", ".", "2">>),
     Some(<<"O", "r", "g", "a", "n", "i", "c", " ", "M", "a", "p", "s", " ", "a", "n", "d", "r", "o", "i", "d">>),
     Some(<<"A", "r", "c", "G", "I", "S", " ", "E", "d", "i", "t", "o", "r", " ", "f", "o", "r", " ", "O", "S", "M">>),
     Some(<<"G", "l", "o", "b", "e">>),
     Some(<<"P", "y", "t", "h", "o", "n", "O", "s", "m", "A", "p", "i", "/", "0", ".", "2">>),
     Some(<<"b", "o", "t", "-", "s", "o", "u", "r", "c", "e", "-", "c", "a", "d", "a", "s", "t", "r", "e", ".", "p", "y">>),
     Some(<<"o", "s", "m", "-", "b", "u", "d", "y", "n", "k", "i", "-", "o", "r", "t", "o", "-", "i", "m", "p", "o", "r", "t">>),
     Some(<<"m", "y", " ", "e", "d", "i", "t", "o", "r">>)}

CallGetDelta ==
    /\ \E current \in DeltaValues, previous \in {None} \cup {Some(v) : v \in DeltaValues} :
          call' = [fn |-> "get_delta", current_value |-> current,
                   previous_value |-> previous, ret |-> get_delta(current, previous)]
    /\ UNCHANGED <<dataMaxYear, engineVars, pageVars, ncalls>>

CallPathsForYears ==
    /\ \E start \in PathYears, end \in PathYears, t \in Templates :
          call' = [fn |-> "paths_for_years", start_year |-> start, end_year |-> end,
                   url_template |-> t, ret |-> paths_for_years(start, end, t)]
    /\ UNCHANGED <<dataMaxYear, engineVars, pageVars, ncalls>>

CallEditorLabel ==
    /\ \E v \in CreatedByValues :
          call' = [fn |-> "editor_label", created_by |-> v, ret |-> editor_label(v)]
    /\ UNCHANGED <<dataMaxYear, engineVars, pageVars, ncalls>>

NextFn == CallGetDelta \/ CallPathsForYears \/ CallEditorLabel

SpecFn == Init /\ [][NextFn]_vars

----------------------------------------------------------------------------
(* Direct calls of the query functions, in any order, with any year around *)
(* the dataset's range                                                     *)

ApiYears == (MinYear - 1)..(dataMaxYear + 1)

Called(fn, year, r) ==
    /\ call' = [fn |-> fn, year |-> year, query |-> r.query, ret |-> r.ret,
                raised |-> r.raised, runs |-> r.runs]
    /\ ncalls' = ncalls + 1

ApiMinMaxTimestamps ==
    /\ ncalls < MaxCalls
    /\ \E up \in BOOLEAN :
        /\ MayFail(up)
        /\ LET r == min_max_timestamps(memo_fetch_one, data_url_template, up)
           IN AccountOne(r) /\ Called("min_max_timestamps", 0, r)
    /\ UNCHANGED <<dataMaxYear, pageVars>>

ApiYearStats ==
    /\ ncalls < MaxCalls
    /\ \E year \in ApiYears, up \in BOOLEAN :
        /\ MayFail(up)
        /\ LET r == year_stats(memo_fetch_one, year, data_url_template, up)
           IN AccountOne(r) /\ Called("year_stats", year, r)
    /\ UNCHANGED <<dataMaxYear, pageVars>>

ApiMostPopularEditors ==
    /\ ncalls < MaxCalls
    /\ \E year \in ApiYears, up \in BOOLEAN :
        /\ MayFail(up)
        /\ LET r == most_popular_editors(memo_fetch_df, year, data_url_template, up)
           IN AccountDf(r) /\ Called("most_popular_editors", year, r)
    /\ UNCHANGED <<dataMaxYear, pageVars>>

ApiGetSampleData ==
    /\ ncalls < MaxCalls
    /\ \E year \in ApiYears, up \in BOOLEAN :
        /\ MayFail(up)
        /\ LET r == get_sample_data(memo_fetch_df, year, data_url_template, up)
           IN AccountDf(r) /\ Called("get_sample_data", year, r)
    /\ UNCHANGED <<dataMaxYear, pageVars>>

ApiMostReportedLocale ==
    /\ ncalls < MaxCalls
    /\ \E year \in ApiYears, up \in BOOLEAN :
        /\ MayFail(up)
        /\ LET r == most_reported_locale(memo_fetch_df, year, data_url_template, up)
           IN AccountDf(r) /\ Called("most_reported_locale", year, r)
    /\ UNCHANGED <<dataMaxYear, pageVars>>

ApiNewUsers ==
    /\ ncalls < MaxCalls
    /\ \E year \in ApiYears, up \in BOOLEAN :
        /\ MayFail(up)
        /\ LET r == new_users(memo_fetch_df, year, data_url_template, up)
           IN AccountDf(r) /\ Called("new_users", year, r)
    /\ UNCHANGED <<dataMaxYear, pageVars>>

ApiStatsOverYears ==
    /\ ncalls < MaxCalls
    /\ \E year \in ApiYears, up \in BOOLEAN :
        /\ MayFail(up)
        /\ LET r == stats_over_years(memo_fetch_df, data_url_template, year, up)
           IN AccountDf(r) /\ Called("stats_over_years", year, r)
    /\ UNCHANGED <<dataMaxYear, pageVars>>

NextApi ==
    \/ ApiMinMaxTimestamps \/ ApiYearStats \/ ApiMostPopularEditors
    \/ ApiGetSampleData \/ ApiMostReportedLocale \/ ApiNewUsers
    \/ ApiStatsOverYears

\* the remote dataset spans two years here
InitApi == Init /\ dataMaxYear = MinYear + 1

SpecApi == InitApi /\ [][NextApi]_vars

----------------------------------------------------------------------------
(* Helpers of the properties: reading text back *)

IsCall(f) == call # None /\ call.fn = f

IsDigit(tok) == tok \in {"0", "1", "2", "3", "4", "5", "6", "7", "8", "9"}

DigitValue(tok) == (CHOOSE d \in DOMAIN Digits : Digits[d] = tok) - 1

\* the number written by a sequence of digit tokens
RECURSIVE ParseNat(_)
ParseNat(ds) ==
    IF ds = <<>> THEN 0
    ELSE 10 * ParseNat(SubSeq(ds, 1, Len(ds) - 1)) + DigitValue(ds[Len(ds)])

HasDigit(text) == \E i \in DOMAIN text : IsDigit(text[i])

\* the first maximal run of digit tokens of a text
FirstDigitRun(text) ==
    LET at == {i \in DOMAIN text : IsDigit(text[i])}
        a == CHOOSE i \in at : \A j \in at : i <= j
        b == CHOOSE i \in at : i >= a /\ (i + 1) \notin at /\ \A j \in a..i : j \in at
    IN SubSeq(text, a, b)

\* the year a formatted location carries
ParseYear(loc) == ParseNat(FirstDigitRun(loc))

Without(text, tok) == SelectSeq(text, LAMBDA t : t # tok)

----------------------------------------------------------------------------
(* C2: paths_for_years(start_year, end_year, url_template) returns, for    *)
(* start_year <= end_year, exactly end_year - start_year + 1 entries, the  *)
(* i-th being the single-quoted template with year start_year + i          *)
(* substituted, in strictly ascending year order; for start_year >         *)
(* end_year it returns the empty sequence.                                 *)
C2_PathsForYears ==
    IsCall("paths_for_years") =>
        LET s == call.start_year
            e == call.end_year
            r == call.ret
        IN /\ s <= e => Len(r) = e - s + 1
           /\ s > e => r = <<>>
           /\ \A i \in DOMAIN r :
                /\ r[i][1] = "'" /\ r[i][Len(r[i])] = "'"
                /\ SubSeq(r[i], 2, Len(r[i]) - 1) = format(call.url_template, s + i - 1)
                /\ ParseYear(r[i]) = s + i - 1
           /\ \A i \in DOMAIN r : i > 1 => ParseYear(r[i - 1]) < ParseYear(r[i])

C2_Witness ==
    /\ IsCall("paths_for_years")
    /\ call.start_year = MinYear /\ call.end_year = MinYear + 2
    /\ Len(call.ret) = 3
    /\ call.ret[3] = <<"'", "s3://tt-osm-changesets/full_by_year/", "2", "0", "0", "7", ".zstd.parquet", "'">>

(* C3: get_delta(current, previous) returns None if and only if previous   *)
(* is None; otherwise it returns current - previous written with an        *)
(* explicit leading sign, '+' for a difference >= 0 and '-' for a negative *)
(* one; get_delta(100, 80) = "+20" and get_delta(80, 100) = "-20".         *)
C3_GetDelta ==
    IsCall("get_delta") =>
        LET cur == call.current_value
            prev == call.previous_value
            r == call.ret
        IN /\ (r = None) <=> (prev = None)
           /\ prev # None =>
                LET d == cur - prev.value
                    body == Tail(r.value)
                IN /\ r.value[1] = (IF d >= 0 THEN "+" ELSE "-")
                   /\ \A i \in DOMAIN body : IsDigit(body[i]) \/ body[i] = ","
                   /\ ParseNat(Without(body, ",")) = Abs(d)
           /\ (cur = 100 /\ prev = Some(80)) => r = Some(<<"+", "2", "0">>)
           /\ (cur = 80 /\ prev = Some(100)) => r = Some(<<"-", "2", "0">>)
           /\ (cur = 100 /\ prev = Some(100)) => r = Some(<<"+", "0">>)

C3_Witness ==
    /\ IsCall("get_delta")
    /\ call.current_value = 80 /\ call.previous_value = Some(100)
    /\ call.ret = Some(<<"-", "2", "0">>)

----------------------------------------------------------------------------
(* C7 *)

\* the literal prefix of a WHEN clause: its pattern without the final %
PrefixOf(c) == SubSeq(c.like, 1, Len(c.like) - 1)

StartsWith(value, prefix) ==
    Len(value) >= Len(prefix) /\ SubSeq(value, 1, Len(prefix)) = prefix

\* the value begins with the prefix, an underscore of the prefix standing
\* for any one character
StartsWithWildcard(value, prefix) ==
    /\ Len(value) >= Len(prefix)
    /\ \A k \in DOMAIN prefix : prefix[k] = "_" \/ prefix[k] = value[k]

FirstMatchLabel(created_by, ret, Matches(_, _)) ==
    /\ created_by = None => ret = Unknown /\ ret # <<>>
    /\ created_by # None =>
        /\ \A i \in DOMAIN EditorCases :
              (/\ Matches(created_by.value, PrefixOf(EditorCases[i]))
               /\ \A j \in 1..(i - 1) : ~Matches(created_by.value, PrefixOf(EditorCases[j])))
              => ret = EditorCases[i].label
        /\ (\A i \in DOMAIN EditorCases : ~Matches(created_by.value, PrefixOf(EditorCases[i])))
              => ret = created_by.value

(* C7 as stated: the editor label of a created_by value is the label of    *)
(* the earliest pattern in list order whose prefix the value starts with;  *)
(* a value that starts with no listed prefix keeps its raw value; a null   *)
(* value resolves to '<unknown>', never to an empty string.                *)
C7_LiteralPrefix ==
    IsCall("editor_label") => FirstMatchLabel(call.created_by, call.ret, StartsWith)

(* C7, amended: the editor label of a created_by value is the label of the *)
(* earliest pattern in list order that the value matches, where a value    *)
(* matches a pattern when it begins with the pattern's prefix and an       *)
(* underscore in the prefix stands for any single character; a value       *)
(* matching no pattern keeps its raw value; a null value resolves to       *)
(* '<unknown>', never to an empty string.                                  *)
C7_FirstMatchWins ==
    IsCall("editor_label") => FirstMatchLabel(call.created_by, call.ret, StartsWithWildcard)

C7_Witness ==
    /\ IsCall("editor_label")
    /\ call.created_by = Some(<<"i", "D", "e", "d", "i", "t", "o", "r", "-", "e", "x", "t", "r", "a">>)
    /\ call.ret = <<"i", "D">>

----------------------------------------------------------------------------
(* Properties of the executor, under SpecApi *)

ScalarFns == {"min_max_timestamps", "year_stats"}

\* what the cache holds for the value a call returned
Stored(c) ==
    IF c.fn = "min_max_timestamps"
    THEN <<c.ret.value.min_opened_date, c.ret.value.max_opened_date>>
    ELSE IF c.fn = "year_stats"
    THEN <<c.ret.value.number_of_changesets.value, c.ret.value.number_of_unique_users.value,
           c.ret.value.number_of_object_changes.value, c.ret.value.number_of_comments.value>>
    ELSE c.ret.value

Kept(memo, memoAfter) ==
    \A q \in DOMAIN memo : q \in DOMAIN memoAfter /\ memoAfter[q] = memo[q]

C1_Step ==
    /\ Kept(memo_fetch_one, memo_fetch_one')
    /\ Kept(memo_fetch_df, memo_fetch_df')
    /\ ncalls' = ncalls + 1 =>
        LET c == call'
            memo == IF c.fn \in ScalarFns THEN memo_fetch_one ELSE memo_fetch_df
            memoAfter == IF c.fn \in ScalarFns THEN memo_fetch_one' ELSE memo_fetch_df'
        IN /\ c.query \in DOMAIN memo =>
                /\ executed' = executed
                /\ ~c.raised
                /\ Stored(c) = memo[c.query]
           /\ (c.query \notin DOMAIN memo /\ ~c.raised) =>
                /\ c.query \in DOMAIN memoAfter
                /\ memoAfter[c.query] = Stored(c)

(* C1 as stated: for any sequence of fetch_one / fetch_df calls, two calls *)
(* with identical query text return identical results and the engine       *)
(* (db.execute) is run at most once for that query text.  Stated for the   *)
(* query texts the engine can execute.                                     *)
C1_RunAtMostOnce ==
    \A q \in DOMAIN executed : EngineAccepts(q) => executed[q] <= 1

(* C1, amended: for any sequence of fetch_one / fetch_df calls, once a     *)
(* call with a query text has returned a result, every later call with     *)
(* the identical text returns the identical result from the memo cache     *)
(* without running the engine: cached entries are never changed or         *)
(* evicted, and the engine completes a query text at most once.  (It runs  *)
(* the text again only after an execution of it failed.)                   *)
C1_CacheHit ==
    /\ [][C1_Step]_vars
    /\ [](\A q \in DOMAIN completed : completed[q] <= 1)

C1_Witness ==
    /\ call # None /\ ~call.raised /\ call.runs = 0
    /\ call.fn = "most_popular_editors"
    /\ call.query \in DOMAIN memo_fetch_df
    /\ executed[call.query] = 1

(* C9: when the engine fails while executing a query, fetch_one / fetch_df *)
(* propagate the failure: the engine is invoked exactly once for that call *)
(* (no retry), no result bundle is returned, and no entry for the query    *)
(* text is added to the cache.                                             *)
C9_FailurePropagates ==
    [][(ncalls' = ncalls + 1 /\ call'.raised) =>
         /\ Runs(executed', call'.query) = Runs(executed, call'.query) + 1
         /\ Runs(completed', call'.query) = Runs(completed, call'.query)
         /\ call'.ret = None
         /\ memo_fetch_one' = memo_fetch_one
         /\ memo_fetch_df' = memo_fetch_df
         /\ call'.query \notin DOMAIN memo_fetch_one' \cup DOMAIN memo_fetch_df']_vars

C9_Witness ==
    /\ call # None /\ call.raised /\ call.ret = None
    /\ call.fn = "new_users"
    /\ EngineAccepts(call.query)
    /\ executed[call.query] = 1
    /\ call.query \notin DOMAIN memo_fetch_df

(* C6: each query builder called with a year outside [2005, max dataset    *)
(* year] ends in a caller-error outcome, and never builds or executes an   *)
(* empty or invalid query.                                                 *)
C6_OutOfRangeRejected ==
    (/\ call # None
     /\ call.fn # "min_max_timestamps"
     /\ call.year \notin MinYear..dataMaxYear)
    => /\ call.raised
       /\ call.runs = 0
       /\ Runs(executed, call.query) = 0

----------------------------------------------------------------------------
(* Properties of the page script, under Spec *)

Placeholder == StatsForYear(None, None, None, None, None)

\* a StatsForYear whose scalars are those the engine returned for its query
StatsFromQuery(b) ==
    /\ b.query # None
    /\ b.number_of_changesets # None /\ b.number_of_unique_users # None
    /\ b.number_of_object_changes # None /\ b.number_of_comments # None
    /\ Runs(completed, b.query.value) >= 1
    /\ b.query.value[1] = SQL_YearStats
    /\ <<b.number_of_changesets.value, b.number_of_unique_users.value,
         b.number_of_object_changes.value, b.number_of_comments.value>>
       = EngineScalars(b.query.value)

DatasetFromQuery(b) ==
    /\ Runs(completed, b.query) >= 1
    /\ b.query[1] = SQL_MinMax
    /\ <<b.min_opened_date, b.max_opened_date>> = EngineScalars(b.query)

\* a DataFrameResult whose table is the one the engine returned for its
\* query, its columns as returned or retitled for display
TableFromQuery(b) ==
    LET t == EngineTable(b.query)
    IN /\ Runs(completed, b.query) >= 1
       /\ b.df.rows = t.rows
       /\ \/ b.df.columns = t.columns
          \/ b.df.columns = [i \in DOMAIN t.columns |-> TitleCase(t.columns[i])]

TableLocals == <<stats, sample_data, editor_result, locale_result, new_users_result>>

\* the bundles the page holds
PageBundlesFromQueries(AllowPlaceholder) ==
    /\ dataset_stats # None => DatasetFromQuery(dataset_stats.value)
    /\ stats_for_year # None => StatsFromQuery(stats_for_year.value)
    /\ stats_for_previous_year # None =>
         \/ StatsFromQuery(stats_for_previous_year.value)
         \/ /\ AllowPlaceholder
            /\ stats_for_previous_year.value = Placeholder
            /\ selected_year = Some(MinYear)
    /\ \A i \in DOMAIN TableLocals :
         TableLocals[i] # None => TableFromQuery(TableLocals[i].value)

\* the bundles and scalars a step puts into the caches, which never change
\* afterwards
CachedFromQueries ==
    /\ Kept(memo_fetch_df, memo_fetch_df')
    /\ Kept(memo_fetch_one, memo_fetch_one')
    /\ \A q \in DOMAIN memo_fetch_df' \ DOMAIN memo_fetch_df :
         /\ memo_fetch_df'[q].query = q
         /\ Runs(completed', q) >= 1
         /\ memo_fetch_df'[q].df = EngineTable(q)
    /\ \A q \in DOMAIN memo_fetch_one' \ DOMAIN memo_fetch_one :
         Runs(completed', q) >= 1 /\ memo_fetch_one'[q] = EngineScalars(q)

(* C5 as stated: every result bundle that exists in any reachable state    *)
(* (DatasetStats, StatsForYear, DataFrameResult, freshly computed or       *)
(* returned from the cache) carries in its query field the exact query     *)
(* text whose execution produced the table/scalars it carries; no bundle   *)
(* has a query field that is absent or belongs to a different result.      *)
C5_EveryBundleHasItsQuery == PageBundlesFromQueries(FALSE)

(* C5, amended: every result bundle built from an executed query carries   *)
(* the exact query text whose execution produced its table/scalars; the    *)
(* only other bundle is the previous-year StatsForYear built when the      *)
(* earliest year (2005) is selected, whose query and four counts are all   *)
(* absent.                                                                 *)
C5_BundleQueryPairing ==
    /\ []PageBundlesFromQueries(TRUE)
    /\ [][CachedFromQueries]_vars

\* a second run of the page for 2005: bundles served from the cache, and
\* the previous-year placeholder
C5_Witness ==
    /\ pc = "done"
    /\ selectbox = Some(MinYear)
    /\ selected_year = Some(MinYear)
    /\ stats_for_previous_year = Some(Placeholder)
    /\ stats_for_year.value.query = Some(year_stats_query(MinYear, data_url_template))
    /\ executed[year_stats_query(MinYear, data_url_template)] = 1
    /\ editor_result.value.query = most_popular_editors_query(MinYear, data_url_template)

Delta(i) == deltas.value[i].delta

YearsIn(query) ==
    LET lits == Literals(query)
    IN {ParseYear(lits[i]) : i \in {j \in DOMAIN lits : HasDigit(lits[j])}}

(* C10: after any sequence of year selections in the dashboard, every year *)
(* substituted into a dataset location by any builder call lies in         *)
(* [2005, max_year], max_year being the year of the dataset's maximum      *)
(* observed timestamp.                                                     *)
C10_YearsInRange ==
    /\ [](/\ max_year # None => max_year.value = dataMaxYear
          /\ selected_year # None => selected_year.value \in MinYear..dataMaxYear
          /\ previous_year # None => previous_year.value \in MinYear..dataMaxYear)
    /\ [][\A q \in DOMAIN executed' :
            Runs(executed', q) > Runs(executed, q) =>
               LET lits == Literals(q)
               IN /\ YearsIn(q) \subseteq MinYear..dataMaxYear
                  /\ \A i \in DOMAIN lits :
                       HasDigit(lits[i]) \/ lits[i] = format_wildcard(data_url_template)]_vars

C10_Witness ==
    /\ pc = "done"
    /\ dataMaxYear = MinYear + 2
    /\ selected_year = Some(MinYear + 1)
    /\ YearsIn(new_users_query(MinYear + 2, data_url_template)) = MinYear..(MinYear + 2)
    /\ new_users_query(MinYear + 2, data_url_template) \in DOMAIN executed
    /\ new_users_query(MinYear + 1, data_url_template) \in DOMAIN executed

\* the count of the 'had prior activity' bucket of a new-vs-old users table
HadPriorActivity(df) ==
    IF \E i \in DOMAIN df.rows : ~df.rows[i].users_who_did_not_edit_before
    THEN df.rows[CHOOSE i \in DOMAIN df.rows : ~df.rows[i].users_who_did_not_edit_before].number_of_users
    ELSE 0

====
